---- MODULE Spec2Model ----
(***************************************************************************)
(* A model of backtest.py: the pipeline main() (load, preprocess, the R    *)
(* and MATLAB adapters, the backtest, the combined report) and the pure    *)
(* dataset functions preprocess_data and run_backtest.                     *)
(*                                                                         *)
(* Python values are records tagged by "kind": None, a DataFrame (cols: a  *)
(* mapping from column name to the column's cells), a dict, a number, an   *)
(* engine-native R ListVector.  A float cell is an exact fraction <<n,d>>  *)
(* with d > 0 in lowest terms, or NaN == <<0,0>>.  Prices are positive, so *)
(* no division by zero (no infinity) arises in pct_change.  Two floats of  *)
(* the code are irrational in general and are kept in the form the code    *)
(* computes them from: the annualized return as its base and exponent,     *)
(* the volatility as its square.                                           *)
(***************************************************************************)
EXTENDS Integers, Sequences, FiniteSets, TLC

VARIABLES
    pc,               \* main's position (the stage about to run), "exit" after return
    runs,             \* calls of main() completed or in progress
    stages,           \* the stages main has started in this run, in order
    df,               \* main's df (line 189)
    df_processed,     \* main's df_processed (line 196), the object the later stages share
    df_snapshot,      \* the value of df_processed when preprocess_data returned
    r_frame,          \* run_r_analysis' locals: pending items of r_result, result_dict
    r_ret,            \* what run_r_analysis returned
    r_results,        \* main's r_results (lines 203-206)
    eng,              \* run_matlab_simulation's engine handle: "none", "open", "closed"
    m_frame,          \* run_matlab_simulation's local result (line 128)
    m_ret,            \* what run_matlab_simulation returned
    matlab_results,   \* main's matlab_results (lines 210-213)
    sessions,         \* MATLAB engine sessions started and still open, over all runs
    backtest_results, \* main's backtest_results (line 217)
    combined_results, \* main's combined_results (lines 224-228), None until built
    lib_df,           \* library harness: the dataset object the caller holds
    lib_prev,         \* library harness: that object before the last call
    lib_ret,          \* library harness: what the last call returned
    lib_ret_prev,     \* library harness: what the call before the last returned
    lib_calls         \* library harness: the functions called so far, in order

vars == <<pc, runs, stages, df, df_processed, df_snapshot, r_frame, r_ret, r_results,
          eng, m_frame, m_ret, matlab_results, sessions, backtest_results,
          combined_results, lib_df, lib_prev, lib_ret, lib_ret_prev, lib_calls>>

-----------------------------------------------------------------------------
(* Bounds of the model *)

MaxRows == 5
MaxFileRows == 2
MaxRuns == 2
MaxCalls == 3

(* Program constants *)

WINDOW == 5
TRADING_DAYS == 252

-----------------------------------------------------------------------------
(* Floats: exact fractions and NaN *)

NaN == <<0, 0>>

IsNaN(a) == a[2] = 0

Abs(n) == IF n < 0 THEN -n ELSE n

RECURSIVE Gcd(_, _)
Gcd(a, b) == IF b = 0 THEN a ELSE Gcd(b, a % b)

Rat(n, d) ==
    LET g == Gcd(Abs(n), Abs(d))
        s == IF d < 0 THEN -1 ELSE 1
    IN  <<(s * n) \div g, (s * d) \div g>>

Whole(n) == <<n, 1>>

\* the sums and products cancel common factors before multiplying, which keeps the
\* intermediate integers small; the value is the exact one
FAdd(a, b) == IF IsNaN(a) \/ IsNaN(b) THEN NaN
              ELSE LET g == Gcd(a[2], b[2])
                   IN  Rat(a[1] * (b[2] \div g) + b[1] * (a[2] \div g),
                           (a[2] \div g) * b[2])

FNeg(a) == <<-a[1], a[2]>>

FSub(a, b) == FAdd(a, FNeg(b))

FMul(a, b) == IF IsNaN(a) \/ IsNaN(b) THEN NaN
              ELSE IF a[1] = 0 \/ b[1] = 0 THEN Whole(0)
              ELSE LET g == Gcd(Abs(a[1]), b[2])
                       h == Gcd(Abs(b[1]), a[2])
                   IN  Rat((a[1] \div g) * (b[1] \div h), (a[2] \div h) * (b[2] \div g))

\* b is never zero here: the only divisors of the code are a positive price
\* (pct_change) and a positive count (mean, std)
FDiv(a, b) == IF IsNaN(a) \/ IsNaN(b) THEN NaN
              ELSE FMul(a, Rat(b[2], b[1]))

\* a > b as IEEE floats: False when either is NaN
FGt(a, b) == ~IsNaN(a) /\ ~IsNaN(b) /\ a[1] * b[2] > b[1] * a[2]

-----------------------------------------------------------------------------
(* Python values *)

None == [kind |-> "None"]

EmptyDict == [kind |-> "dict", items |-> <<>>]

Dict(f) == [kind |-> "dict", items |-> f]

DataFrame(c) == [kind |-> "DataFrame", cols |-> c]

Columns(d) == DOMAIN d.cols

\* f with column name set to column s (df[name] = s): replaces or appends
SetCol(c, name, s) == [k \in DOMAIN c \cup {name} |-> IF k = name THEN s ELSE c[k]]

-----------------------------------------------------------------------------
(* pandas reductions and transforms on one column (a sequence of cells) *)

RECURSIVE SumFrom(_, _)
\* the sum of the non-NaN cells of s[i..Len(s)]
SumFrom(s, i) ==
    IF i > Len(s) THEN Whole(0)
    ELSE IF IsNaN(s[i]) THEN SumFrom(s, i + 1)
    ELSE FAdd(s[i], SumFrom(s, i + 1))

Count(s) == Cardinality({i \in 1..Len(s) : ~IsNaN(s[i])})

\* Series.mean(): skips NaN; NaN for a column with no defined cell
Mean(s) == IF Count(s) = 0 THEN NaN ELSE FDiv(SumFrom(s, 1), Whole(Count(s)))

\* Series.fillna(v)
FillNa(s, v) == [i \in 1..Len(s) |-> IF IsNaN(s[i]) THEN v ELSE s[i]]

\* a rolling mean over the cells seen so far while fewer than w are seen
RollingMeanPartial(s, w) ==
    [i \in 1..Len(s) |->
        LET lo == IF i < w THEN 1 ELSE i - w + 1
        IN  IF \E j \in lo..i : IsNaN(s[j]) THEN NaN
            ELSE FDiv(SumFrom(SubSeq(s, lo, i), 1), Whole(i - lo + 1))]

\* Series.rolling(window=w).mean(): NaN until w cells are seen, NaN if the window holds a NaN
RollingMean(s, w) ==
    [i \in 1..Len(s) |->
        IF i < w \/ \E j \in (i - w + 1)..i : IsNaN(s[j]) THEN NaN
        ELSE FDiv(SumFrom(SubSeq(s, i - w + 1, i), 1), Whole(w))]

\* Series.shift(1)
Shift(s) == [i \in 1..Len(s) |-> IF i = 1 THEN NaN ELSE s[i - 1]]

\* Series.pct_change()
PctChange(s) == [i \in 1..Len(s) |-> IF i = 1 THEN NaN
                                     ELSE FSub(FDiv(s[i], s[i - 1]), Whole(1))]

RECURSIVE ProdTo(_, _)
\* the product of the non-NaN cells of s[1..i]
ProdTo(s, i) ==
    IF i = 0 THEN Whole(1)
    ELSE IF IsNaN(s[i]) THEN ProdTo(s, i - 1)
    ELSE FMul(s[i], ProdTo(s, i - 1))

\* Series.cumprod(): skipna, a NaN cell stays NaN and is left out of the product
CumProd(s) == [i \in 1..Len(s) |-> IF IsNaN(s[i]) THEN NaN ELSE ProdTo(s, i)]

\* the square of Series.std() (ddof = 1, skipna): NaN with fewer than 2 defined cells
Variance(s) ==
    IF Count(s) < 2 THEN NaN
    ELSE LET m == Mean(s)
             sq == [i \in 1..Len(s) |-> IF IsNaN(s[i]) THEN NaN
                                        ELSE FMul(FSub(s[i], m), FSub(s[i], m))]
         IN  FDiv(SumFrom(sq, 1), Whole(Count(s) - 1))

-----------------------------------------------------------------------------
(* preprocess_data (lines 40-61) *)

\* df.fillna(df.mean()): every column's NaN cells get that column's mean
FillNaWithMeans(c) == [k \in DOMAIN c |-> FillNa(c[k], Mean(c[k]))]

\* a variant that imputes after the feature is appended
preprocess_data_fill_last(d) ==
    IF d = None THEN None
    ELSE IF "Close" \notin Columns(d) THEN None
    ELSE DataFrame(FillNaWithMeans(
             SetCol(d.cols, "MA_5", RollingMean(d.cols["Close"], WINDOW))))

\* returns a new DataFrame (fillna copies); None when df is None or df['Close'] raises KeyError
preprocess_data(d) ==
    IF d = None THEN None
    ELSE LET df_filled == FillNaWithMeans(d.cols)
         IN  IF "Close" \notin DOMAIN df_filled THEN None
             ELSE DataFrame(SetCol(df_filled, "MA_5",
                                   RollingMean(df_filled["Close"], WINDOW)))

-----------------------------------------------------------------------------
(* run_backtest (lines 136-172) *)

Num(c) == [kind |-> "float", v |-> c]

\* (base)**(252/len(df)) - 1, kept as base and exponent
PowMinus1(base, e) == [kind |-> "pow_minus_1", base |-> base, exp |-> e]

\* std * sqrt(252), kept as its square, variance * 252
SqrtOf(sq) == [kind |-> "sqrt", of |-> sq]

Quot(a, b) == [kind |-> "quot", num |-> a, den |-> b]

\* numpy's float power: NaN for a NaN base, and for a negative base with a non-integer exponent
PowIsNaN(base, e) == IsNaN(base) \/ (base[1] < 0 /\ e[2] # 1)

RECURSIVE ValueIsNaN(_)
ValueIsNaN(x) ==
    CASE x.kind = "float" -> IsNaN(x.v)
      [] x.kind = "pow_minus_1" -> PowIsNaN(x.base, x.exp)
      [] x.kind = "sqrt" -> IsNaN(x.of)
      [] x.kind = "quot" -> ValueIsNaN(x.num) \/ ValueIsNaN(x.den)

\* x > 0 for the volatility: the square root of a non-negative square
VolGtZero(x) == FGt(x.of, Whole(0))

VolIsZero(x) == x.of = Whole(0)

\* lines 150-153: the four columns run_backtest writes into the caller's DataFrame
Position(c) == [i \in 1..Len(c["Close"]) |->
                   IF FGt(c["MA_5"][i], c["Close"][i]) THEN Whole(1) ELSE Whole(-1)]

\* a lag applied to the column already in the frame, when there is one
LaggedPositionInPlace(c) ==
    IF "Lagged_Position" \in DOMAIN c THEN Shift(c["Lagged_Position"])
    ELSE Shift(Position(c))

\* the same-row position used as the traded position
LaggedPositionSameRow(c) == Position(c)

LaggedPosition(c) == Shift(Position(c))

Returns(c) == PctChange(c["Close"])

StrategyReturns(c) == [i \in 1..Len(c["Close"]) |->
                          FMul(LaggedPosition(c)[i], Returns(c)[i])]

BacktestColumns(c) ==
    [k \in DOMAIN c \cup {"Position", "Lagged_Position", "Returns", "Strategy_Returns"} |->
        CASE k = "Position" -> Position(c)
          [] k = "Lagged_Position" -> LaggedPosition(c)
          [] k = "Returns" -> Returns(c)
          [] k = "Strategy_Returns" -> StrategyReturns(c)
          [] OTHER -> c[k]]

\* line 154
CumulativeReturns(c) ==
    LET n == Len(c["Strategy_Returns"])
        grown == CumProd([i \in 1..n |-> FAdd(c["Strategy_Returns"][i], Whole(1))])
    IN  [i \in 1..n |-> FSub(grown[i], Whole(1))]

\* line 160
SharpeRatio(ret, vol) == IF VolGtZero(vol) THEN Quot(ret, vol) ELSE Num(Whole(0))

\* lines 156-168, for a frame of at least one row
Metrics(c) ==
    LET n == Len(c["Close"])
        cumulative_returns == CumulativeReturns(c)
        total_return == cumulative_returns[n]
        average_annual_return ==
            PowMinus1(FAdd(total_return, Whole(1)), Rat(TRADING_DAYS, n))
        annualized_volatility ==
            SqrtOf(FMul(Variance(c["Strategy_Returns"]), Whole(TRADING_DAYS)))
    IN  Dict([cumulative_returns |-> cumulative_returns,
              total_return |-> Num(total_return),
              average_annual_return |-> average_annual_return,
              annualized_volatility |-> annualized_volatility,
              sharpe_ratio |-> SharpeRatio(average_annual_return, annualized_volatility)])

\* lines 156-172 on the frame with the four columns written: an empty frame raises
\* IndexError at line 156 (iloc[-1])
BacktestReturn(c) ==
    IF Len(c["Close"]) = 0 THEN [ret |-> None, df |-> DataFrame(c)]
    ELSE [ret |-> Metrics(c), df |-> DataFrame(c)]

\* run_backtest(df): ret is what it returns, df the caller's object after the call.
\* A missing column raises KeyError at line 150 before any write.  (The columns are
\* computed once and bound to c, as the code holds them in df.)
run_backtest(d) ==
    IF d = None THEN [ret |-> None, df |-> d]
    ELSE IF ~({"MA_5", "Close"} \subseteq Columns(d)) THEN [ret |-> None, df |-> d]
    ELSE CHOOSE r \in {BacktestReturn(c) : c \in {BacktestColumns(d.cols)}} : TRUE

-----------------------------------------------------------------------------
(* Input files *)

\* the cells of a raw Close column: two prices and a missing cell
RawCells == {NaN, Whole(1), Whole(3)}

CloseColumns(n) == UNION {[1..k -> RawCells] : k \in 0..n}

\* a second numeric column whose first cell is missing
VolumeColumn(n) == [i \in 1..n |-> IF i = 1 THEN NaN ELSE Whole(2)]

\* the frames a data file of at most n rows can hold: with Close, with or without a
\* second column, and without Close; every column is a float column, an empty one too
RawDatasets(n) ==
    {DataFrame([Close |-> s]) : s \in CloseColumns(n)}
    \cup {DataFrame([Close |-> s, Volume |-> VolumeColumn(Len(s))]) : s \in CloseColumns(n)}
    \cup {DataFrame([Volume |-> VolumeColumn(k)]) : k \in 0..n}

-----------------------------------------------------------------------------
(* The library harness: a caller applies preprocess_data and run_backtest to a
   dataset object it holds, in any order *)

Idle == [kind |-> "idle"]

MainIdle ==
    /\ pc = "lib" /\ runs = 0 /\ stages = <<>>
    /\ df = None /\ df_processed = None /\ df_snapshot = None
    /\ r_frame = Idle /\ r_ret = None /\ r_results = None
    /\ eng = "none" /\ m_frame = None /\ m_ret = None /\ matlab_results = None
    /\ sessions = 0 /\ backtest_results = None /\ combined_results = None

mainVars == <<pc, runs, stages, df, df_processed, df_snapshot, r_frame, r_ret, r_results,
              eng, m_frame, m_ret, matlab_results, sessions, backtest_results,
              combined_results>>

libVars == <<lib_df, lib_prev, lib_ret, lib_ret_prev, lib_calls>>

LibInit ==
    /\ MainIdle
    /\ lib_df \in RawDatasets(MaxRows)
    /\ lib_prev = lib_df
    /\ lib_ret = None
    /\ lib_ret_prev = None
    /\ lib_calls = <<>>

\* ret = preprocess_data(obj); the caller goes on with what was returned, as main does
LibPreprocess ==
    /\ Len(lib_calls) < MaxCalls
    /\ lib_ret' = preprocess_data(lib_df)
    /\ lib_df' = IF lib_ret' = None THEN lib_df ELSE lib_ret'
    /\ lib_prev' = lib_df
    /\ lib_ret_prev' = lib_ret
    /\ lib_calls' = Append(lib_calls, "preprocess_data")
    /\ UNCHANGED mainVars

\* ret = run_backtest(obj); obj is written in place
LibBacktest ==
    /\ Len(lib_calls) < MaxCalls
    /\ \E call \in {run_backtest(lib_df)} :
          /\ lib_ret' = call.ret
          /\ lib_df' = call.df
    /\ lib_prev' = lib_df
    /\ lib_ret_prev' = lib_ret
    /\ lib_calls' = Append(lib_calls, "run_backtest")
    /\ UNCHANGED mainVars

LibNext == LibPreprocess \/ LibBacktest

LibSpec == LibInit /\ [][LibNext]_vars

-----------------------------------------------------------------------------
(* load_data (lines 14-38) *)

NotFound == [kind |-> "NotFound"]

Corrupt == [kind |-> "Corrupt"]

\* what may sit at data_file: nothing, content that does not parse, or a frame
Files == RawDatasets(MaxFileRows) \cup {NotFound, Corrupt}

FileTypes == {"csv", "parquet", "xlsx"}

\* None for an unsupported file_type, FileNotFoundError, or any other exception of the reader
load_data(file, file_type) ==
    IF file_type \notin {"csv", "parquet"} THEN None
    ELSE IF file = NotFound THEN None
    ELSE IF file = Corrupt THEN None
    ELSE file

-----------------------------------------------------------------------------
(* The external engines' outputs *)

RList(f) == [kind |-> "ListVector", items |-> f]

\* what perform_analysis may return: an R list, flat, nested once, nested twice, or empty
ROutputs ==
    { RList(<<>>),
      RList([p_value |-> Num(Whole(1))]),
      RList([coef |-> RList([a |-> Num(Whole(1)), b |-> Num(Whole(2))]),
             p_value |-> Num(Whole(3))]),
      RList([model |-> RList([fit |-> RList([x |-> Num(Whole(1))])])]) }

\* what eng.eval(..., nargout=1) may return: a number or a struct
MatlabOutputs == { Num(Whole(7)), Dict([pnl |-> Num(Whole(1))]) }

-----------------------------------------------------------------------------
(* run_r_analysis (lines 63-93) *)

\* lines 86-89: a ListVector value becomes a dict of its items, any other value is kept
ConvertItem(value) ==
    IF value.kind = "ListVector" THEN Dict(value.items) ELSE value

\* the names of r_result not yet visited by the loop of line 85, and the next one
\* line 81: the frame is copied into an R data.frame
Py2Rpy(d) == [kind |-> "data.frame", cols |-> d.cols]

Pending(f) == DOMAIN f.r_result.items \ DOMAIN f.result_dict

NextName(f) == CHOOSE n \in Pending(f) : TRUE

\* a handler that hands back what was built so far
RExceptPartial(f) == IF f.kind = "frame" THEN Dict(f.result_dict) ELSE None

\* lines 91-93: the except clause returns None
RExcept(f) == None

\* where an exception raised at a site of run_r_analysis goes: every site is inside
\* the try of line 76
RCatch(site) == "except"

-----------------------------------------------------------------------------
(* run_matlab_simulation (lines 95-134) *)

\* line 111: df.to_dict(orient='list'), a copy of the columns
ToDict(d) == d.cols

MaxLen(c) == CHOOSE m \in {Len(c[k]) : k \in DOMAIN c} :
                 \A k \in DOMAIN c : Len(c[k]) <= m

\* lines 114-117: every list padded with NaN to the longest
Pad(c) == [k \in DOMAIN c |->
              c[k] \o [i \in 1..(MaxLen(c) - Len(c[k])) |-> NaN]]

\* where an exception raised at a site of run_matlab_simulation goes: eng.struct is
\* inside the try of line 120, everything (that handler included) inside the try of
\* line 108
MCatch(site) ==
    CASE site = "struct" -> "inner"
      [] OTHER -> "outer"

-----------------------------------------------------------------------------
(* main (lines 174-243) *)

\* lines 204-206 and 211-213: a None result is replaced by {}
OrEmptyKeepNone(v) == v

OrEmpty(v) == IF v = None THEN EmptyDict ELSE v

AfterLoad(v) == IF v = None THEN "exit" ELSE "preprocess"

AfterPreprocessAlways(v) == "r_setup"

\* lines 197-199
AfterPreprocess(v) == IF v = None THEN "exit" ELSE "r_setup"

AfterBacktestAlways(v) == "combine"

\* lines 218-220
AfterBacktest(v) == IF v = None THEN "exit" ELSE "combine"

CombinedReportSwapped(r, m, b) ==
    Dict([r_results |-> r, matlab_results |-> r, backtest_results |-> b])

\* a report that shows the R result where the MATLAB result is empty
CombinedReportRFallback(r, m, b) ==
    Dict([r_results |-> r,
          matlab_results |-> IF m = EmptyDict THEN r ELSE m,
          backtest_results |-> b])

\* lines 224-228
CombinedReport(r, m, b) ==
    Dict([r_results |-> r, matlab_results |-> m, backtest_results |-> b])

LibIdle ==
    /\ lib_df = None /\ lib_prev = None /\ lib_ret = None /\ lib_ret_prev = None
    /\ lib_calls = <<>>

Init ==
    /\ pc = "load" /\ runs = 1 /\ stages = <<>>
    /\ df = None /\ df_processed = None /\ df_snapshot = None
    /\ r_frame = Idle /\ r_ret = None /\ r_results = None
    /\ eng = "none" /\ m_frame = None /\ m_ret = None /\ matlab_results = None
    /\ sessions = 0 /\ backtest_results = None /\ combined_results = None
    /\ LibIdle

\* lines 187-192
LoadData ==
    /\ pc = "load"
    /\ \E file \in Files, file_type \in FileTypes :
          df' = load_data(file, file_type)
    /\ stages' = Append(stages, "load")
    /\ pc' = AfterLoad(df')
    /\ UNCHANGED <<runs, df_processed, df_snapshot, r_frame, r_ret, r_results, eng,
                   m_frame, m_ret, matlab_results, sessions, backtest_results,
                   combined_results, libVars>>

\* lines 194-199
PreprocessData ==
    /\ pc = "preprocess"
    /\ df_processed' = preprocess_data(df)
    /\ df_snapshot' = df_processed'
    /\ stages' = Append(stages, "preprocess")
    /\ pc' = AfterPreprocess(df_processed')
    /\ UNCHANGED <<runs, df, r_frame, r_ret, r_results, eng, m_frame, m_ret,
                   matlab_results, sessions, backtest_results, combined_results, libVars>>

\* run_r_analysis hands v back to main, which stores it (lines 203-206)
RReturns(v) ==
    /\ r_ret' = v
    /\ r_results' = OrEmpty(v)
    /\ pc' = "m_start"

\* an exception raised inside run_r_analysis at site
RRaises(site, f) ==
    IF RCatch(site) = "except" THEN RReturns(RExcept(f))
    ELSE pc' = "crash" /\ UNCHANGED <<r_ret, r_results>>

rRest == <<runs, df, df_processed, df_snapshot, eng, m_frame, m_ret, matlab_results,
           sessions, backtest_results, combined_results, libVars>>

\* lines 74-81: source the script, look the function up, convert the frame
RSetup ==
    /\ pc = "r_setup"
    /\ stages' = Append(stages, "r")
    /\ \E outcome \in {"ok", "script_missing", "no_function", "conversion_failure"} :
          IF outcome = "ok"
          THEN pc' = "r_call" /\ r_frame' = Idle /\ UNCHANGED <<r_ret, r_results>>
          ELSE r_frame' = Idle /\ RRaises(outcome, Idle)
    /\ UNCHANGED rRest

\* line 82: the call returns an R list, raises, or never returns
RCall ==
    /\ pc = "r_call"
    /\ \/ \E out \in ROutputs :
             /\ r_frame' = [kind |-> "frame", r_df |-> Py2Rpy(df_processed),
                             r_result |-> out, result_dict |-> <<>>]
             /\ pc' = "r_items"
             /\ UNCHANGED <<r_ret, r_results>>
       \/ r_frame' = r_frame /\ RRaises("call", r_frame)
       \/ pc' = "r_hung" /\ UNCHANGED <<r_frame, r_ret, r_results>>
    /\ UNCHANGED <<stages, rRest>>

\* lines 85-89: one turn of the loop; fetching the item may raise
RItem ==
    /\ pc = "r_items"
    /\ Pending(r_frame) # {}
    /\ LET name == NextName(r_frame)
           value == r_frame.r_result.items[name]
       IN  \/ /\ r_frame' = [r_frame EXCEPT !.result_dict =
                                 [k \in DOMAIN @ \cup {name} |->
                                     IF k = name THEN ConvertItem(value) ELSE @[k]]]
              /\ UNCHANGED <<pc, r_ret, r_results>>
           \/ r_frame' = r_frame /\ RRaises("items", r_frame)
    /\ UNCHANGED <<stages, rRest>>

\* line 90
RFinish ==
    /\ pc = "r_items"
    /\ Pending(r_frame) = {}
    /\ RReturns(Dict(r_frame.result_dict))
    /\ UNCHANGED <<stages, r_frame, rRest>>

\* run_matlab_simulation hands v back to main, which stores it (lines 210-213)
MReturns(v) ==
    /\ m_ret' = v
    /\ matlab_results' = OrEmpty(v)
    /\ pc' = "backtest"

\* an exception raised inside run_matlab_simulation at site
MRaises(site) ==
    CASE MCatch(site) = "inner" -> pc' = "m_struct_quit" /\ UNCHANGED <<m_ret, matlab_results>>
      [] MCatch(site) = "outer" -> MReturns(None)
      [] OTHER -> pc' = "crash" /\ UNCHANGED <<m_ret, matlab_results>>

mRest == <<runs, df, df_processed, df_snapshot, r_frame, r_ret, r_results,
           backtest_results, combined_results, libVars>>

\* lines 106-117: start the engine, build and pad the column dictionary
MStart ==
    /\ pc = "m_start"
    /\ stages' = Append(stages, "matlab")
    /\ \/ /\ eng' = "open"
          /\ sessions' = sessions + 1
          /\ m_frame' = [kind |-> "frame", data_dict |-> Pad(ToDict(df_processed)),
                         result |-> None]
          /\ pc' = "m_struct"
          /\ UNCHANGED <<m_ret, matlab_results>>
       \/ /\ eng' = "none"
          /\ m_frame' = None
          /\ MRaises("start")
          /\ UNCHANGED sessions
    /\ UNCHANGED mRest

\* lines 120-123
MStruct ==
    /\ pc = "m_struct"
    /\ \/ pc' = "m_eval" /\ UNCHANGED <<m_ret, matlab_results>>
       \/ MRaises("struct")
    /\ UNCHANGED <<stages, eng, sessions, m_frame, mRest>>

\* lines 124-125: the inner handler quits the engine and returns None.  eng.quit()
\* raises only when the session is already gone, so either way none is left open.
MStructQuit ==
    /\ pc = "m_struct_quit"
    /\ eng' = "closed"
    /\ sessions' = sessions - 1
    /\ \/ MReturns(None)
       \/ MRaises("quit_inner")
    /\ UNCHANGED <<stages, m_frame, mRest>>

\* line 128: the evaluation returns a value, raises, or never returns
MEval ==
    /\ pc = "m_eval"
    /\ \/ \E out \in MatlabOutputs :
             /\ m_frame' = [m_frame EXCEPT !.result = out]
             /\ pc' = "m_quit"
             /\ UNCHANGED <<m_ret, matlab_results>>
       \/ MRaises("eval") /\ UNCHANGED m_frame
       \/ pc' = "m_hung" /\ UNCHANGED <<m_frame, m_ret, matlab_results>>
    /\ UNCHANGED <<stages, eng, sessions, mRest>>

\* lines 130-131
MQuit ==
    /\ pc = "m_quit"
    /\ eng' = "closed"
    /\ sessions' = sessions - 1
    /\ \/ MReturns(m_frame.result)
       \/ MRaises("quit")
    /\ UNCHANGED <<stages, m_frame, mRest>>

\* lines 215-220: run_backtest writes its columns into df_processed
RunBacktest ==
    /\ pc = "backtest"
    /\ stages' = Append(stages, "backtest")
    /\ \E call \in {run_backtest(df_processed)} :
          /\ backtest_results' = call.ret
          /\ df_processed' = call.df
          /\ pc' = AfterBacktest(call.ret)
    /\ UNCHANGED <<runs, df, df_snapshot, r_frame, r_ret, r_results, eng, m_frame, m_ret,
                   matlab_results, sessions, combined_results, libVars>>

\* lines 222-243
Combine ==
    /\ pc = "combine"
    /\ stages' = Append(stages, "combine")
    /\ combined_results' = CombinedReport(r_results, matlab_results, backtest_results)
    /\ pc' = "exit"
    /\ UNCHANGED <<runs, df, df_processed, df_snapshot, r_frame, r_ret, r_results, eng,
                   m_frame, m_ret, matlab_results, sessions, backtest_results, libVars>>

\* main is called again (line 248): fresh locals, the process' engine sessions remain
Restart ==
    /\ pc = "exit"
    /\ runs < MaxRuns
    /\ runs' = runs + 1
    /\ pc' = "load" /\ stages' = <<>>
    /\ df' = None /\ df_processed' = None /\ df_snapshot' = None
    /\ r_frame' = Idle /\ r_ret' = None /\ r_results' = None
    /\ eng' = "none" /\ m_frame' = None /\ m_ret' = None /\ matlab_results' = None
    /\ backtest_results' = None /\ combined_results' = None
    /\ UNCHANGED <<sessions, libVars>>

Next ==
    \/ LoadData \/ PreprocessData
    \/ RSetup \/ RCall \/ RItem \/ RFinish
    \/ MStart \/ MStruct \/ MStructQuit \/ MEval \/ MQuit
    \/ RunBacktest \/ Combine \/ Restart

Spec == Init /\ [][Next]_vars

\* main runs on one thread: a step that can be taken is taken
FairSpec == Spec /\ WF_vars(Next)

-----------------------------------------------------------------------------
(* Properties *)

Started(s) == \E i \in 1..Len(stages) : stages[i] = s

LastCall == lib_calls[Len(lib_calls)]

RPcs == {"r_setup", "r_call", "r_items", "r_hung"}

MPcs == {"m_start", "m_struct", "m_struct_quit", "m_eval", "m_quit", "m_hung"}

\* run_r_analysis has returned to main in this run
RReturned == Started("r") /\ pc \notin RPcs /\ pc # "crash"

\* run_matlab_simulation has returned to main in this run
MReturned == Started("matlab") /\ pc \notin MPcs /\ pc # "crash"

BacktestKeys == {"cumulative_returns", "total_return", "average_annual_return",
                 "annualized_volatility", "sharpe_ratio"}

\* C1: when load_data, preprocess_data or run_backtest returns None, main returns at
\* that stage: the failed stage is the last one started, and no report exists then or
\* at any other moment at which one of the three has failed.
C1_FatalStageAborts ==
    /\ (Started("load") /\ df = None) =>
          pc = "exit" /\ stages = <<"load">> /\ combined_results = None
    /\ (Started("preprocess") /\ df_processed = None) =>
          pc = "exit" /\ stages = <<"load", "preprocess">> /\ combined_results = None
    /\ (Started("backtest") /\ backtest_results = None) =>
          /\ pc = "exit"
          /\ stages = <<"load", "preprocess", "r", "matlab", "backtest">>
          /\ combined_results = None

\* a run that got as far as the backtest, which failed
C1_Witness == Started("backtest") /\ backtest_results = None /\ pc = "exit"

\* C2: once preprocessing has succeeded main returns only after both adapters and
\* the backtest have run, whatever the adapters did; when the backtest succeeded too
\* it returns with a report
\* whose two adapter fields are {} for an adapter that returned None and otherwise
\* the very value the adapter returned, and whose backtest field is what
\* run_backtest returned, with all five metrics.
C2_ReportUnderAdapterFailures ==
    /\ (Started("preprocess") /\ df_processed # None /\ pc \in {"exit", "crash"}) =>
          pc = "exit" /\ Started("r") /\ Started("matlab") /\ Started("backtest")
    /\ (pc = "exit" /\ Started("backtest") /\ backtest_results # None) =>
        /\ combined_results # None
        /\ combined_results.items.r_results = (IF r_ret = None THEN EmptyDict ELSE r_ret)
        /\ combined_results.items.matlab_results =
              (IF m_ret = None THEN EmptyDict ELSE m_ret)
        /\ combined_results.items.backtest_results = backtest_results
        /\ DOMAIN backtest_results.items = BacktestKeys

\* a report built although the R adapter failed and the MATLAB adapter succeeded
C2_Witness ==
    /\ pc = "exit" /\ combined_results # None
    /\ r_ret = None /\ m_ret \in MatlabOutputs

\* C3: outside run_matlab_simulation no MATLAB engine session is open: every session
\* the adapter started was released before it returned.
C3_EngineReleased == (pc \notin MPcs \ {"m_start"}) => sessions = 0

\* C4: every run of main that starts also ends.
C4_EveryRunTerminates == (pc = "load") ~> (pc = "exit")

\* C5: an adapter that has returned has handed main either None or the whole
\* result (every name of the engine's output converted; the value eval returned),
\* and no exception leaves an adapter.
C5_AdapterWholeOrNone ==
    /\ pc # "crash"
    /\ RReturned =>
          \/ r_ret = None
          \/ /\ r_frame.kind = "frame"
             /\ r_ret = Dict([n \in DOMAIN r_frame.r_result.items |->
                                 ConvertItem(r_frame.r_result.items[n])])
    /\ MReturned =>
          \/ m_ret = None
          \/ m_ret \in MatlabOutputs /\ m_ret = m_frame.result

\* the R adapter failed in its loop with part of the result built, and returned None
C5_Witness ==
    /\ RReturned /\ r_ret = None
    /\ r_frame.kind = "frame" /\ DOMAIN r_frame.result_dict # {}

\* C6: the processed dataset stays as preprocess_data returned it.
C6_ProcessedUnchanged == df_snapshot # None => df_processed = df_snapshot

\* C7: a report has exactly the three fields, none of them None, an adapter that
\* returned None shows as {}, and the backtest field has the five metrics.
C7_ReportFields ==
    combined_results # None =>
        /\ DOMAIN combined_results.items = {"r_results", "matlab_results", "backtest_results"}
        /\ \A k \in DOMAIN combined_results.items : combined_results.items[k] # None
        /\ r_ret = None => combined_results.items.r_results = EmptyDict
        /\ m_ret = None => combined_results.items.matlab_results = EmptyDict
        /\ combined_results.items.backtest_results.kind = "dict"
        /\ DOMAIN combined_results.items.backtest_results.items = BacktestKeys

\* a report built with both adapters failed
C7_Witness == combined_results # None /\ r_ret = None /\ m_ret = None

\* C8: run_backtest returns None exactly for a dataset with fewer than 2 rows or
\* without the Close or the MA_5 column.
C8_BacktestFailsExactly ==
    (lib_calls # <<>> /\ LastCall = "run_backtest") =>
        LET fit == /\ {"Close", "MA_5"} \subseteq Columns(lib_prev)
                   /\ Len(lib_prev.cols["Close"]) >= 2
        IN  (lib_ret = None) <=> ~fit

\* C9: when run_backtest succeeds the Sharpe ratio is 0 for a zero volatility, is
\* return / volatility for a positive one, and is never NaN.
C9_SharpeDefined ==
    (lib_calls # <<>> /\ LastCall = "run_backtest" /\ lib_ret # None) =>
        LET m == lib_ret.items
        IN  /\ VolIsZero(m.annualized_volatility) => m.sharpe_ratio = Num(Whole(0))
            /\ VolGtZero(m.annualized_volatility) =>
                  m.sharpe_ratio = Quot(m.average_annual_return, m.annualized_volatility)
            /\ ~ValueIsNaN(m.sharpe_ratio)

\* C10: preprocess_data applied to a dataset it returned gives that dataset again:
\* the same columns and the same cells, the undefined ones included.
C10_PreprocessIdempotent ==
    (/\ Len(lib_calls) >= 2
     /\ LastCall = "preprocess_data"
     /\ lib_calls[Len(lib_calls) - 1] = "preprocess_data"
     /\ "Close" \in Columns(lib_prev)) =>
        lib_ret # None /\ lib_ret = lib_prev /\ lib_df = lib_prev

\* preprocess_data twice on a 5-row dataset with a second column: the moving average
\* has undefined and defined cells
C10_Witness ==
    /\ lib_calls = <<"preprocess_data", "preprocess_data">>
    /\ {"Volume", "MA_5"} \subseteq Columns(lib_df)
    /\ Len(lib_df.cols["MA_5"]) = WINDOW
    /\ IsNaN(lib_df.cols["MA_5"][1])
    /\ ~IsNaN(lib_df.cols["MA_5"][WINDOW])

\* C11: run_backtest called twice in a row on the same dataset object returns the
\* same value both times: the same metrics, or None both times.
C11_BacktestDeterministic ==
    (/\ Len(lib_calls) >= 2
     /\ LastCall = "run_backtest"
     /\ lib_calls[Len(lib_calls) - 1] = "run_backtest") =>
        lib_ret = lib_ret_prev

\* run_backtest twice on a preprocessed 5-row dataset whose strategy made or lost money
C11_Witness ==
    /\ lib_calls = <<"preprocess_data", "run_backtest", "run_backtest">>
    /\ lib_ret # None
    /\ lib_ret_prev # None
    /\ Len(lib_df.cols["Close"]) = WINDOW
    /\ "Lagged_Position" \in Columns(lib_prev)
    /\ ~IsNaN(lib_ret.items.total_return.v)
    /\ lib_ret.items.total_return.v # Whole(0)

\* C12: in the frame run_backtest has written, the position of a row whose moving
\* average is undefined is undefined (neither +1 nor -1), and the position of a row
\* whose moving average is defined is +1 (Long) if the average is above the close and
\* -1 (Short) otherwise.
C12_PositionFollowsAverage ==
    (/\ lib_calls # <<>>
     /\ LastCall = "run_backtest"
     /\ "Position" \in Columns(lib_df)) =>
        \A i \in 1..Len(lib_df.cols["Close"]) :
            LET ma == lib_df.cols["MA_5"][i]
                close == lib_df.cols["Close"][i]
                position == lib_df.cols["Position"][i]
            IN  /\ IsNaN(ma) => IsNaN(position)
                /\ ~IsNaN(ma) =>
                      position = IF FGt(ma, close) THEN Whole(1) ELSE Whole(-1)

\* the product of 1 + s[k] over the defined cells of s[lo..i]
RECURSIVE GrowthOver(_, _, _)
GrowthOver(s, lo, i) ==
    IF i < lo THEN Whole(1)
    ELSE IF IsNaN(s[i]) THEN GrowthOver(s, lo, i - 1)
    ELSE FMul(FAdd(s[i], Whole(1)), GrowthOver(s, lo, i - 1))

\* C13: a row's strategy return is defined only when its lagged position and its
\* period return are both defined; rows 1..4 (the rows before the first one that
\* follows a defined moving average) compound nothing, so the cumulative return is
\* undefined up to row 4, and the total return is the product of 1 + strategy return
\* over rows 5..n-1, minus 1.  (Rows are counted from 0 in the claim, from 1 here.)
C13_CompoundingStartsAtRowFive ==
    (/\ lib_calls # <<>>
     /\ LastCall = "run_backtest"
     /\ lib_ret # None) =>
        LET c == lib_df.cols
            n == Len(c["Close"])
            s == c["Strategy_Returns"]
            m == lib_ret.items
        IN  /\ \A i \in 1..n :
                  ~IsNaN(s[i]) =>
                      ~IsNaN(c["Lagged_Position"][i]) /\ ~IsNaN(c["Returns"][i])
            /\ \A i \in 2..n : i <= WINDOW => IsNaN(m.cumulative_returns[i])
            /\ (n > WINDOW /\ ~IsNaN(s[n])) =>
                  m.total_return = Num(FSub(GrowthOver(s, WINDOW + 1, n), Whole(1)))

\* C14: in the frame run_backtest has written, the lagged position of row 0 is
\* undefined, the lagged position of every later row is the position of the row
\* before it, and a row's strategy return is its lagged position times its period
\* return (the relative change of the close from the row before).
C14_LaggedPositionTrades ==
    (/\ lib_calls # <<>>
     /\ LastCall = "run_backtest"
     /\ "Position" \in Columns(lib_df)) =>
        LET c == lib_df.cols
            n == Len(c["Close"])
        IN  /\ n >= 1 => IsNaN(c["Lagged_Position"][1])
            /\ \A i \in 2..n :
                  /\ c["Lagged_Position"][i] = c["Position"][i - 1]
                  /\ c["Strategy_Returns"][i] =
                        FMul(c["Position"][i - 1],
                             FSub(FDiv(c["Close"][i], c["Close"][i - 1]), Whole(1)))
            /\ \A i \in 1..n :
                  c["Strategy_Returns"][i] = FMul(c["Lagged_Position"][i], c["Returns"][i])

\* a backtest of a 5-row dataset whose last row turns Long after a Short row, so that
\* the last strategy return differs from what the same-row position would give
C14_Witness ==
    /\ lib_calls # <<>>
    /\ LastCall = "run_backtest"
    /\ lib_ret # None
    /\ Len(lib_df.cols["Close"]) = WINDOW
    /\ lib_df.cols["Position"][WINDOW] = Whole(1)
    /\ lib_df.cols["Lagged_Position"][WINDOW] = Whole(-1)
    /\ ~IsNaN(lib_df.cols["Strategy_Returns"][WINDOW])
    /\ lib_df.cols["Strategy_Returns"][WINDOW] #
          FMul(lib_df.cols["Position"][WINDOW], lib_df.cols["Returns"][WINDOW])

StageOrder == <<"load", "preprocess", "r", "matlab", "backtest", "combine">>

\* C15: in every run of main the stages start in the order load, preprocess, R
\* adapter, MATLAB adapter, backtest, report, each one after the stage before it has
\* returned; the adapters and the backtest start only with a dataset that
\* preprocess_data returned, and the report is built only after run_backtest returned
\* metrics.
C15_StageOrder ==
    /\ Len(stages) <= Len(StageOrder)
    /\ \A i \in 1..Len(stages) : stages[i] = StageOrder[i]
    /\ Started("matlab") => pc \notin RPcs
    /\ Started("backtest") => pc \notin RPcs \cup MPcs
    /\ pc \in RPcs \cup MPcs \cup {"backtest", "combine"} =>
          df_processed # None /\ Started("preprocess")
    /\ (Started("r") \/ Started("matlab") \/ Started("backtest")) =>
          df # None /\ df_snapshot # None
    /\ (pc = "combine" \/ Started("combine") \/ combined_results # None) =>
          Started("backtest") /\ backtest_results # None

\* a run that went through all six stages and returned
C15_Witness ==
    /\ pc = "exit"
    /\ stages = StageOrder
    /\ r_ret = None
    /\ m_ret # None
    /\ combined_results # None

\* C16: whatever the other adapter did, each adapter is given the dataset that
\* preprocess_data returned, its field of the report is its own return value ({} for
\* None), and the backtest metrics are those of that same dataset.  Every one of
\* these values is thus a function of the dataset and of the adapter's own engine
\* alone, so two runs that differ only in the other adapter's outcome agree on them.
C16_AdaptersIndependent ==
    /\ r_frame.kind = "frame" => r_frame.r_df = Py2Rpy(df_snapshot)
    /\ m_frame # None => m_frame.data_dict = Pad(ToDict(df_snapshot))
    /\ RReturned => r_results = IF r_ret = None THEN EmptyDict ELSE r_ret
    /\ MReturned => matlab_results = IF m_ret = None THEN EmptyDict ELSE m_ret
    /\ (Started("backtest") /\ pc # "crash") =>
          backtest_results = run_backtest(df_snapshot).ret
    /\ combined_results # None =>
          /\ combined_results.items.r_results =
                IF r_ret = None THEN EmptyDict ELSE r_ret
          /\ combined_results.items.matlab_results =
                IF m_ret = None THEN EmptyDict ELSE m_ret
          /\ combined_results.items.backtest_results = run_backtest(df_snapshot).ret

\* a report of a run whose R adapter returned items and whose MATLAB adapter failed
C16_Witness ==
    /\ pc = "exit"
    /\ combined_results # None
    /\ r_ret # None
    /\ r_ret # EmptyDict
    /\ m_ret = None
    /\ combined_results.items.matlab_results = EmptyDict
    /\ combined_results.items.r_results = r_ret

RECURSIVE HasListVector(_)
HasListVector(value) ==
    \/ value.kind = "ListVector"
    \/ /\ value.kind = "dict"
       /\ \E k \in DOMAIN value.items : HasListVector(value.items[k])

\* C18: what run_r_analysis returns holds no R list at any nesting depth: every list
\* of the engine's result, nested ones included, has become a dict.
C18_ResultNormalized ==
    (RReturned /\ r_ret # None) => ~HasListVector(r_ret)

====
